---------------------------- MODULE Spec2Model ----------------------------
(***************************************************************************)
(* RadioBoxPayment: the order settlement engine (handle_payment_success)   *)
(* and the balance withdrawals (create_payout, create_transfer) of         *)
(* app/routes.py, run as concurrent requests against the SQLite ledger     *)
(* store configured in app/config.py.                                      *)
(*                                                                         *)
(* Money.  account_balance, amount, your_share and seller_share are Python *)
(* floats.  The model keeps every monetary value as an integer number of   *)
(* thousandths (2.00 is 2000, 1.50 is 1500, 0.045 is 45): item amounts are *)
(* whole hundredths, so 10% and 90% of them, and every balance, are exact. *)
(* The number handed to the external processor is the Python int the       *)
(* handler computes.  The rounding of the float products themselves is     *)
(* modelled apart, bit by bit, for the revenue split (Split).              *)
(*                                                                         *)
(* Store.  Every request has its own session (Flask-SQLAlchemy scoped      *)
(* session, removed when the request ends).  A SELECT outside a            *)
(* transaction reads the committed rows; the first INSERT/UPDATE of a      *)
(* session takes the single SQLite write lock, which is held until commit  *)
(* or rollback.                                                            *)
(***************************************************************************)
EXTENDS Integers, Sequences, FiniteSets, TLC

\* ------------------------------------------------------------------ bounds
MaxRequests == 2

\* batch entries handled by all the settlements of a run together
MaxEntries == 2

\* --------------------------------------------------------------- universe
\* worker threads of the server, each handling one request at a time
Threads == {1, 2}

\* rows of the users table
Users == {1, 2}

\* an id that resolves to no User row
MissingUser == 3

Identities == Users \cup {MissingUser}

\* rows of the marketplace_items table: id -> userId
ItemOwner == ("X" :> 1) @@ ("Y" :> 2) @@ ("Z" :> MissingUser)

\* account_balance of the users when the requests start (thousandths)
InitBalance == (1 :> 2000) @@ (2 :> 0)

\* revenue split, in percent
PlatformRate == 10

SellerRate == 90

\* largest integer amount the revenue split is computed for on its own
MaxAmount == 100

\* ------------------------------------------------------------ Python bits
\* int(x) of a value kept in thousandths: truncation toward zero
PyInt(x) == IF x >= 0 THEN x \div 1000 ELSE -((-x) \div 1000)

\* item.get(k) is None, "" or 0
Falsy(e, k) ==
  \/ k \notin e.keys
  \/ (k = "id" /\ e.id = "")
  \/ (k = "amount" /\ e.amount = 0)

YourShare(amount) == (amount * PlatformRate) \div 100

SellerShare(amount) == (amount * SellerRate) \div 100

\* ---------------------------------------------------- Python float products
\* A positive binary64 value is [m, e]: m the significand as a sequence of
\* bits, lowest bit first, and e the exponent of that lowest bit; its value
\* is m * 2^e.  TLC's integers have 32 bits, so the 53-bit significand is
\* computed on bit sequences.
RECURSIVE BitsOf(_)
\* the bits of the natural number n
BitsOf(n) == IF n = 0 THEN <<>> ELSE <<n % 2>> \o BitsOf(n \div 2)

RECURSIVE BAdd(_, _, _)
\* x + y + c on bit sequences
BAdd(x, y, c) ==
  IF x = <<>> /\ y = <<>> THEN (IF c = 1 THEN <<1>> ELSE <<>>)
  ELSE LET a == IF x = <<>> THEN 0 ELSE x[1]
           b == IF y = <<>> THEN 0 ELSE y[1]
       IN  <<(a + b + c) % 2>>
             \o BAdd(IF x = <<>> THEN x ELSE Tail(x), IF y = <<>> THEN y ELSE Tail(y),
                     (a + b + c) \div 2)

RECURSIVE BTimes(_, _)
\* x * n, n a natural number
BTimes(x, n) ==
  IF n = 0 THEN <<>>
  ELSE BAdd(IF n % 2 = 1 THEN x ELSE <<>>, <<0>> \o BTimes(x, n \div 2), 0)

RECURSIVE Trim(_)
\* without the zero bits at the high end
Trim(x) == IF x # <<>> /\ x[Len(x)] = 0 THEN Trim(SubSeq(x, 1, Len(x) - 1)) ELSE x

RECURSIVE Canon(_)
\* the same value with an odd significand, so that equal values are equal records
Canon(f) ==
  IF f.m # <<>> /\ f.m[1] = 0 THEN Canon([m |-> Tail(f.m), e |-> f.e + 1]) ELSE f

\* the exact value x * 2^e rounded to the 53 bits of a binary64 significand,
\* to nearest, ties to even
Round53(x, e) ==
  IF Len(x) <= 53 THEN Canon([m |-> x, e |-> e])
  ELSE LET s == Len(x) - 53
           hi == SubSeq(x, s + 1, Len(x))
           half == x[s] = 1
           sticky == \E i \in 1..(s - 1) : x[i] = 1
           up == half /\ (sticky \/ hi[1] = 1)
       IN  Canon([m |-> IF up THEN BAdd(hi, <<1>>, 0) ELSE hi, e |-> e + s])

\* float(n) of a Python int n > 0
Float(n) == Canon([m |-> BitsOf(n), e |-> 0])

\* n * c in binary64, n a Python int > 0 and c a float
FMul(n, c) == Round53(Trim(BTimes(c.m, n)), c.e)

\* x + y in binary64
FAdd(x, y) ==
  LET e0 == IF x.e < y.e THEN x.e ELSE y.e
      Shift(f) == [i \in 1..(f.e - e0) |-> 0] \o f.m
  IN  Round53(Trim(BAdd(Shift(x), Shift(y), 0)), e0)

RECURSIVE Rep(_, _)
Rep(pat, k) == IF k = 0 THEN <<>> ELSE pat \o Rep(pat, k - 1)

\* the literal 0.10: 0x1999999999999A * 2^-56
F010 == [m |-> <<0, 1, 0, 1>> \o Rep(<<1, 0, 0, 1>>, 12) \o <<1>>, e |-> -56]

\* the literal 0.90: 0x1CCCCCCCCCCCCD * 2^-53
F090 == [m |-> <<1, 0, 1, 1>> \o Rep(<<0, 0, 1, 1>>, 12) \o <<1>>, e |-> -53]

\* ----------------------------------------------------------------- inputs
Entry(id, amt) == [keys |-> {"id", "amount"}, id |-> id, amount |-> amt]

\* the entries a batch is made of: known items of both sellers (1.00 and
\* 2.05), a negative amount, an item whose seller has no row, an unknown id,
\* a zero amount, an entry without id and one without amount
Entries ==
  { Entry("X", 1000), Entry("Y", 2050), Entry("Y", -1000), Entry("Z", 1000),
    Entry("Q", 1000), Entry("X", 0),
    [keys |-> {"amount"}, id |-> "", amount |-> 1000],
    [keys |-> {"id"}, id |-> "X", amount |-> 0] }

TotalAmounts == {3000}

Buyers == {2}

\* a request: the authenticated user, the keys present in the JSON body and
\* their values.  empty says that the items list has no entry; items holds
\* the entries the loop has reached so far: the handler never looks ahead in
\* the list, so each entry, and the end of the list, is drawn when the loop
\* gets there.
Req(kind, user, keys, empty, token, total, amount) ==
  [kind |-> kind, user |-> user, keys |-> keys, empty |-> empty, items |-> <<>>,
   token |-> token, total |-> total, amount |-> amount]

NoReq == Req("none", 0, {}, TRUE, "", 0, 0)

SettleRequests ==
  {Req("settle", u, {"items", "total_amount", "fcm_token"}, n, k, a, 0) :
      u \in Buyers, n \in BOOLEAN, k \in {"", "tok"}, a \in TotalAmounts}
  \cup {Req("settle", u, ks, FALSE, "", 3000, 0) :
      u \in Buyers, ks \in {{"items", "total_amount"}, {"total_amount", "fcm_token"},
                            {"items", "fcm_token"}}}

PayoutAmounts == {-1000, 1500, 2000}

PayoutRequests ==
  {Req("payout", u, {"account_id", "amount"}, TRUE, "", 0, a) :
      u \in Users, a \in PayoutAmounts}
  \cup {Req("payout", MissingUser, {"account_id", "amount"}, TRUE, "", 0, 2000),
        Req("payout", 1, {"account_id"}, TRUE, "", 0, 0)}

TransferRequests ==
  {Req("transfer", u, {"account_id"}, TRUE, "", 0, 0) : u \in Identities}
  \cup {Req("transfer", 1, {}, TRUE, "", 0, 0)}

\* ------------------------------------------------------------------ state
VARIABLES
  balance,    \* committed users.account_balance
  orders,     \* committed orders rows, row i has id i
  payments,   \* committed payments rows
  sales,      \* committed sales_transactions rows
  dbLock,     \* the thread holding the SQLite write lock, or 0
  processor,  \* calls the external processor accepted, in order
  pc,         \* where each thread's request stands
  req,        \* the request each thread is handling
  sess,       \* each thread's db.session and handler locals
  last,       \* the response just sent: thread, request, reply, and the
              \* store and processor calls before the step that sent it
  hist,       \* requests started, batch entries handled and settlement
              \* requests committed so far
  notified,   \* "item sold" notifications triggered (calls of on_item_sold),
              \* in order: seller, item, the id of the order whose settlement
              \* made the call, and whether a message reached messaging.send
  split       \* the revenue split last computed on its own, as binary64 values

vars == <<balance, orders, payments, sales, dbLock, processor, pc, req, sess, last, hist,
          notified, split>>

Store == [balance |-> balance, orders |-> orders, payments |-> payments, sales |-> sales]

SetStore(s) ==
  /\ balance' = s.balance
  /\ orders' = s.orders
  /\ payments' = s.payments
  /\ sales' = s.sales

\* obj: the User objects of the session (id -> account_balance); orders,
\* pays, sales: rows added and not yet committed; idx: entries the loop has
\* completed
EmptySession == [obj |-> <<>>, orders |-> <<>>, pays |-> <<>>, sales |-> <<>>, idx |-> 0]

Reply(status, error) == [status |-> status, error |-> error]

NoSplit == [amount |-> 0]

NoEvent == [t |-> 0, req |-> NoReq, reply |-> Reply(0, ""), before |-> <<>>, asked |-> <<>>]

Init ==
  /\ balance = InitBalance
  /\ orders = <<>>
  /\ payments = <<>>
  /\ sales = <<>>
  /\ dbLock = 0
  /\ processor = <<>>
  /\ pc = [t \in Threads |-> "idle"]
  /\ req = [t \in Threads |-> NoReq]
  /\ sess = [t \in Threads |-> EmptySession]
  /\ last = NoEvent
  /\ hist = [nreq |-> 0, entries |-> 0, settled |-> <<>>]
  /\ notified = <<>>
  /\ split = NoSplit

\* ------------------------------------------------------- session and store
\* the committed store once thread t's session commits: pending rows are
\* appended, every loaded user row is written with its in-session balance
Committed(t) ==
  [balance  |-> [u \in Users |-> IF u \in DOMAIN sess[t].obj THEN sess[t].obj[u]
                                                               ELSE balance[u]],
   orders   |-> orders \o sess[t].orders,
   payments |-> payments \o sess[t].pays,
   sales    |-> sales \o sess[t].sales]

\* a rollback that would let the flushed Order row survive
RollbackKeepsOrder(t) == [Store EXCEPT !.orders = orders \o sess[t].orders]

\* the committed store after db.session.rollback(): nothing of the session
Rollback(t) == Store

\* a request end that would commit what the session holds
SessionRemoveCommits(t) == Committed(t)

\* the committed store after the request ends without commit or rollback:
\* the scoped session is removed, which rolls its transaction back
SessionRemove(t) == Store

\* a store without a write lock
CanWriteAlways(t) == TRUE

\* SQLite lets a session write when no other session holds the write lock
CanWrite(t) == dbLock \in {0, t}

\* User.query.get(u): the session's own object when it has one, otherwise
\* the committed row
UserRead(t, u) == IF u \in DOMAIN sess[t].obj THEN sess[t].obj[u] ELSE balance[u]

\* a request arrives and is given to the first idle worker thread
Begin(t, r) ==
  /\ pc[t] = "idle"
  /\ \A o \in Threads : pc[o] = "idle" => t <= o
  /\ hist.nreq < MaxRequests
  /\ hist' = [hist EXCEPT !.nreq = @ + 1]

\* the handler goes on with request r
Continue(t, r, pcNext) ==
  /\ pc' = [pc EXCEPT ![t] = pcNext]
  /\ req' = [req EXCEPT ![t] = r]
  /\ last' = NoEvent
  /\ UNCHANGED <<balance, orders, payments, sales, split>>

\* the request r ends: response sent, session removed, write lock given up
Finish(t, r, reply) ==
  /\ pc' = [pc EXCEPT ![t] = "idle"]
  /\ req' = [req EXCEPT ![t] = NoReq]
  /\ sess' = [sess EXCEPT ![t] = EmptySession]
  /\ dbLock' = IF dbLock = t THEN 0 ELSE dbLock
  /\ last' = [t |-> t, req |-> r, reply |-> reply, before |-> Store, asked |-> processor]
  /\ split' = split

\* --------------------------------------------------- handle_payment_success
\* validation of the request body, then the Order insert and flush
SettleStart(t, r) ==
  /\ r \in SettleRequests
  /\ Begin(t, r)
  /\ UNCHANGED <<processor, notified>>
  /\ IF "items" \notin r.keys \/ "total_amount" \notin r.keys
        THEN /\ SetStore(SessionRemove(t))
             /\ Finish(t, r, Reply(400, "Missing required fields"))
     ELSE IF "fcm_token" \notin r.keys
        THEN /\ SetStore(Rollback(t))
             /\ Finish(t, r, Reply(500, "Internal server error"))
     ELSE IF r.empty
        THEN /\ SetStore(SessionRemove(t))
             /\ Finish(t, r, Reply(400, "Items must be a non-empty list"))
     ELSE IF CanWrite(t)
        THEN /\ hist.entries < MaxEntries
             /\ dbLock' = t
             /\ sess' = [sess EXCEPT ![t].orders =
                    <<[id |-> Len(orders) + 1, user_id |-> r.user,
                       total_amount |-> r.total, status |-> "completed"]>>]
             /\ Continue(t, r, "s_loop")
     ELSE    \* "database is locked" once the busy timeout expires
             /\ SetStore(Rollback(t))
             /\ Finish(t, r, Reply(500, "Internal server error"))

\* Payment(marketplace_item_id, amount, status='success', order_id)
PaymentRow(e, oid) ==
  [marketplace_item_id |-> e.id, amount |-> e.amount, status |-> "success", order_id |-> oid]

\* SalesTransaction(item_id, user_id=marketplace_item.userId, order_id,
\* your_share, seller_share)
SalesRow(e, oid) ==
  [item_id |-> e.id, user_id |-> ItemOwner[e.id], order_id |-> oid,
   your_share |-> YourShare(e.amount), seller_share |-> SellerShare(e.amount)]

\* a handler that would skip the Payment of an item the order already holds
AddPaymentOnce(t, e) ==
  IF \E i \in 1..Len(sess[t].pays) : sess[t].pays[i].marketplace_item_id = e.id
    THEN sess[t].pays
    ELSE Append(sess[t].pays, PaymentRow(e, sess[t].orders[1].id))

\* a handler that would write the rows only when the seller exists
AddPaymentIfSeller(t, e) ==
  IF ItemOwner[e.id] \in Users
    THEN Append(sess[t].pays, PaymentRow(e, sess[t].orders[1].id))
    ELSE sess[t].pays

\* db.session.add(payment): the session's pending Payment rows
AddPayment(t, e) == Append(sess[t].pays, PaymentRow(e, sess[t].orders[1].id))

\* a handler that would credit the authenticated user
CreditBuyer(t, e) ==
  (req[t].user :> UserRead(t, req[t].user) + SellerShare(e.amount)) @@ sess[t].obj

\* a handler that would assign the share: seller.account_balance = seller_share
CreditSellerAssign(t, e) ==
  IF ItemOwner[e.id] \in Users
    THEN (ItemOwner[e.id] :> SellerShare(e.amount)) @@ sess[t].obj
    ELSE sess[t].obj

\* seller = User.query.get(marketplace_item.userId); if seller:
\* seller.account_balance += seller_share: the session's User objects
CreditSeller(t, e) ==
  IF ItemOwner[e.id] \in Users
    THEN (ItemOwner[e.id] :> UserRead(t, ItemOwner[e.id]) + SellerShare(e.amount))
           @@ sess[t].obj
    ELSE sess[t].obj

\* on_item_sold(user_id, item_name): user.fcm_token raises AttributeError,
\* User having no such attribute; send_fcm_message is not reached
OnItemSold(user_id, item_name) == [raised |-> TRUE, sent |-> FALSE]

\* one iteration of the loop over items, e being the entry it reaches
SettleItem(t, e) ==
  /\ pc[t] = "s_loop"
  /\ e \in Entries
  /\ hist.entries < MaxEntries
  /\ hist' = [hist EXCEPT !.entries = @ + 1]
  /\ processor' = processor
  /\ LET r == [req[t] EXCEPT !.items = Append(@, e)]
         oid == sess[t].orders[1].id
     IN
     IF Falsy(e, "id") \/ Falsy(e, "amount")
        THEN /\ SetStore(SessionRemove(t))
             /\ Finish(t, r, Reply(400, "Each item must have an 'id' and 'amount'"))
             /\ notified' = notified
     ELSE IF e.id \notin DOMAIN ItemOwner
        THEN /\ SetStore(SessionRemove(t))
             /\ Finish(t, r, Reply(400, "Invalid MarketplaceItem ID"))
             /\ notified' = notified
     ELSE
       LET seller == ItemOwner[e.id]
           called == seller \in Users /\ r.token # ""
           out == OnItemSold(seller, e.id)
       IN
       /\ notified' = IF called
                         THEN Append(notified, [user |-> seller, item |-> e.id,
                                                order |-> oid, sent |-> out.sent])
                         ELSE notified
       /\ IF called /\ out.raised
            THEN \* the exception of on_item_sold reaches the except block
                 /\ SetStore(Rollback(t))
                 /\ Finish(t, r, Reply(500, "Internal server error"))
            ELSE /\ sess' = [sess EXCEPT
                       ![t].pays = AddPayment(t, e),
                       ![t].sales = Append(@, SalesRow(e, oid)),
                       ![t].idx = @ + 1,
                       ![t].obj = CreditSeller(t, e)]
                 /\ dbLock' = dbLock
                 /\ Continue(t, r, "s_loop")

\* the list has no further entry: db.session.commit() after the loop
SettleCommit(t) ==
  /\ pc[t] = "s_loop"
  /\ sess[t].idx >= 1
  /\ SetStore(Committed(t))
  /\ Finish(t, req[t], Reply(200, "Payment recorded and order created successfully"))
  /\ hist' = [hist EXCEPT !.settled = Append(@, req[t])]
  /\ UNCHANGED <<processor, notified>>

\* any statement after the flush raises (storage failure): the except block
SettleRaise(t) ==
  /\ pc[t] = "s_loop"
  /\ SetStore(Rollback(t))
  /\ Finish(t, req[t], Reply(500, "Internal server error"))
  /\ UNCHANGED <<processor, notified, hist>>

\* ------------------------------------------------------------ create_payout
\* the comparison turned round
InsufficientReversed(bal, amount) == amount < bal

\* user.account_balance < amount
Insufficient(bal, amount) == bal < amount

\* the user row is read and the balance checked
PayoutStart(t, r) ==
  /\ r \in PayoutRequests
  /\ Begin(t, r)
  /\ UNCHANGED <<processor, notified>>
  /\ IF r.user \notin Users \/ "amount" \notin r.keys
        THEN \* None.account_balance (AttributeError), float < None (TypeError)
             /\ SetStore(SessionRemove(t))
             /\ Finish(t, r, Reply(500, IF r.user \notin Users THEN "AttributeError"
                                                                ELSE "TypeError"))
     ELSE IF Insufficient(UserRead(t, r.user), r.amount)
        THEN /\ SetStore(SessionRemove(t))
             /\ Finish(t, r, Reply(400, "Insufficient balance"))
     ELSE    /\ sess' = [sess EXCEPT ![t].obj = (r.user :> UserRead(t, r.user))]
             /\ dbLock' = dbLock
             /\ Continue(t, r, "p_call")

\* stripe.Payout.create succeeds, then the balance is debited in the session
PayoutCallOk(t) ==
  /\ pc[t] = "p_call"
  /\ LET call == [op |-> "payout", user |-> req[t].user, amount |-> PyInt(req[t].amount)]
     IN  /\ processor' = Append(processor, call)
         /\ sess' = [sess EXCEPT ![t].obj[req[t].user] = @ - req[t].amount]
  /\ Continue(t, req[t], "p_commit")
  /\ UNCHANGED <<dbLock, notified, hist>>

\* a payout that would debit and commit before the call that then raises
PayoutCallFailDebited(t) ==
  /\ pc[t] = "p_call"
  /\ SetStore([Store EXCEPT !.balance[req[t].user] = @ - req[t].amount])
  /\ Finish(t, req[t], Reply(500, "StripeError"))
  /\ UNCHANGED <<processor, notified, hist>>

\* stripe.Payout.create raises
PayoutCallFail(t) ==
  /\ pc[t] = "p_call"
  /\ SetStore(SessionRemove(t))
  /\ Finish(t, req[t], Reply(500, "StripeError"))
  /\ UNCHANGED <<processor, notified, hist>>

\* db.session.commit(): UPDATE users SET account_balance = <session value>,
\* once no other session holds the write lock
PayoutCommit(t) ==
  /\ pc[t] = "p_commit"
  /\ CanWrite(t)
  /\ SetStore(Committed(t))
  /\ Finish(t, req[t], Reply(200, "payout"))
  /\ UNCHANGED <<processor, notified, hist>>

\* db.session.commit() raises (storage failure, database locked)
PayoutCommitFail(t) ==
  /\ pc[t] = "p_commit"
  /\ SetStore(SessionRemove(t))
  /\ Finish(t, req[t], Reply(500, "OperationalError"))
  /\ UNCHANGED <<processor, notified, hist>>

\* ---------------------------------------------------------- create_transfer
\* account_id and the user row are checked, the balance must be positive
TransferStart(t, r) ==
  /\ r \in TransferRequests
  /\ Begin(t, r)
  /\ UNCHANGED <<processor, notified>>
  /\ IF "account_id" \notin r.keys
        THEN /\ SetStore(SessionRemove(t))
             /\ Finish(t, r, Reply(400, "Account ID is required"))
     ELSE IF r.user \notin Users
        THEN /\ SetStore(SessionRemove(t))
             /\ Finish(t, r, Reply(404, "User not found"))
     ELSE IF UserRead(t, r.user) <= 0
        THEN /\ SetStore(SessionRemove(t))
             /\ Finish(t, r, Reply(400, "Insufficient balance"))
     ELSE    /\ sess' = [sess EXCEPT ![t].obj = (r.user :> UserRead(t, r.user))]
             /\ dbLock' = dbLock
             /\ Continue(t, r, "t_call")

\* stripe.Transfer.create(amount=int(balance * 100)) succeeds, balance = 0
TransferCallOk(t) ==
  /\ pc[t] = "t_call"
  /\ LET call == [op |-> "transfer", user |-> req[t].user,
                  amount |-> PyInt(sess[t].obj[req[t].user] * 100)]
     IN  /\ processor' = Append(processor, call)
         /\ sess' = [sess EXCEPT ![t].obj[req[t].user] = 0]
  /\ Continue(t, req[t], "t_commit")
  /\ UNCHANGED <<dbLock, notified, hist>>

\* stripe.Transfer.create raises
TransferCallFail(t) ==
  /\ pc[t] = "t_call"
  /\ SetStore(SessionRemove(t))
  /\ Finish(t, req[t], Reply(500, "StripeError"))
  /\ UNCHANGED <<processor, notified, hist>>

\* db.session.commit() of the zeroed balance
TransferCommit(t) ==
  /\ pc[t] = "t_commit"
  /\ CanWrite(t)
  /\ SetStore(Committed(t))
  /\ Finish(t, req[t], Reply(200, "transfer"))
  /\ UNCHANGED <<processor, notified, hist>>

\* db.session.commit() raises
TransferCommitFail(t) ==
  /\ pc[t] = "t_commit"
  /\ SetStore(SessionRemove(t))
  /\ Finish(t, req[t], Reply(500, "OperationalError"))
  /\ UNCHANGED <<processor, notified, hist>>

\* ------------------------------------------------------------ revenue split
\* your_share = amount * 0.10; seller_share = amount * 0.90, for an integer
\* amount, as the floats Python computes and the Float columns store
Split(amount) ==
  /\ amount \in 1..MaxAmount
  /\ split' = [amount |-> Float(amount),
               your_share |-> FMul(amount, F010),
               seller_share |-> FMul(amount, F090)]
  /\ UNCHANGED <<balance, orders, payments, sales, dbLock, processor, pc, req, sess,
                 last, hist, notified>>

\* ------------------------------------------------------------ specification
Next ==
  \E t \in Threads :
    \/ \E r \in SettleRequests : SettleStart(t, r)
    \/ \E e \in Entries : SettleItem(t, e)
    \/ SettleCommit(t)
    \/ SettleRaise(t)
    \/ \E r \in PayoutRequests : PayoutStart(t, r)
    \/ PayoutCallOk(t)
    \/ PayoutCallFail(t)
    \/ PayoutCommit(t)
    \/ PayoutCommitFail(t)
    \/ \E r \in TransferRequests : TransferStart(t, r)
    \/ TransferCallOk(t)
    \/ TransferCallFail(t)
    \/ TransferCommit(t)
    \/ TransferCommitFail(t)

Spec == Init /\ [][Next]_vars

\* the same handlers when requests run one at a time and no storage
\* operation fails
NextSeq ==
  \E t \in Threads :
    \/ (\A o \in Threads : pc[o] = "idle") /\ \E r \in SettleRequests : SettleStart(t, r)
    \/ \E e \in Entries : SettleItem(t, e)
    \/ SettleCommit(t)
    \/ (\A o \in Threads : pc[o] = "idle") /\ \E r \in PayoutRequests : PayoutStart(t, r)
    \/ PayoutCallOk(t)
    \/ PayoutCallFail(t)
    \/ PayoutCommit(t)
    \/ (\A o \in Threads : pc[o] = "idle") /\ \E r \in TransferRequests : TransferStart(t, r)
    \/ TransferCallOk(t)
    \/ TransferCallFail(t)
    \/ TransferCommit(t)

SpecSeq == Init /\ [][NextSeq]_vars

\* the revenue split on its own, over the integer amounts up to MaxAmount
NextSplit == \E amount \in 1..MaxAmount : Split(amount)

SpecSplit == Init /\ [][NextSplit]_vars

TypeOK ==
  /\ balance \in [Users -> Int]
  /\ dbLock \in Threads \cup {0}
  /\ \A t \in Threads : pc[t] \in {"idle", "s_loop", "p_call", "p_commit", "t_call", "t_commit"}
  /\ hist.nreq \in 0..MaxRequests
  /\ hist.entries \in 0..MaxEntries
  /\ \A i \in 1..Len(notified) : notified[i].user \in Users

\* ------------------------------------------------------------------ claims
RECURSIVE SumShares(_, _)
\* sum of seller_share over the sales_transactions rows of seller u
SumShares(rows, u) ==
  IF rows = <<>> THEN 0
  ELSE (IF rows[1].user_id = u THEN rows[1].seller_share ELSE 0) + SumShares(Tail(rows), u)

RECURSIVE SumMoved(_, _, _)
\* what the processor was asked to move for user u by the calls of kind op,
\* in thousandths: a payout passes a number of whole units, a transfer a
\* number of hundredths
SumMoved(calls, u, op) ==
  IF calls = <<>> THEN 0
  ELSE (IF calls[1].user = u /\ calls[1].op = op
          THEN (IF op = "payout" THEN calls[1].amount * 1000 ELSE calls[1].amount * 10)
          ELSE 0)
       + SumMoved(Tail(calls), u, op)

AllIdle == \A t \in Threads : pc[t] = "idle"

Replied(kind, status) == last.req.kind = kind /\ last.reply.status = status

C2_NoLostCredit ==
  processor = <<>> =>
    \A u \in Users : balance[u] = InitBalance[u] + SumShares(sales, u)

\* C2 witness: two committed settlements credited the same seller
C2_Witness ==
  /\ processor = <<>>
  /\ Len(orders) = 2
  /\ \E u \in Users :
       /\ \E i \in 1..Len(sales) : sales[i].order_id = 1 /\ sales[i].user_id = u
       /\ \E i \in 1..Len(sales) : sales[i].order_id = 2 /\ sales[i].user_id = u
       /\ balance[u] = InitBalance[u] + 1800

\* C3 (as claimed): with payouts only, what the processor is asked to pay out
\* for a user never exceeds the balance the user had before the payouts.
C3_NoOverWithdrawal ==
  (sales = <<>> /\ \A i \in 1..Len(processor) : processor[i].op = "payout") =>
    \A u \in Users : SumMoved(processor, u, "payout") <= InitBalance[u]

\* C4 (as claimed): after one committed settlement and one committed payout
\* of amount a by user U, the payout answering last, U's balance is the
\* initial balance plus the settlement's credit minus a.
C4_CreditDebitSerialize ==
  (/\ Replied("payout", 200)
   /\ last.req.amount > 0
   /\ hist.nreq = 2
   /\ Len(orders) = 1
   /\ Len(processor) = 1) =>
    balance[last.req.user] =
      InitBalance[last.req.user] + SumShares(sales, last.req.user) - last.req.amount

\* C5 (as claimed): with requests run one at a time and no storage failure,
\* after each completed request every user's balance is the initial balance
\* plus the seller_share of its committed sales transactions minus what the
\* processor moved for its payouts and transfers.
C5_LedgerReconciles ==
  AllIdle =>
    \A u \in Users :
      balance[u] = InitBalance[u] + SumShares(sales, u)
                   - SumMoved(processor, u, "payout") - SumMoved(processor, u, "transfer")

\* C6: a settlement that answers 500 (a statement after the Order flush
\* raised) leaves the committed store as it was: no Order, Payment or
\* SalesTransaction row and no credit of it.
C6_FailureLeavesStore ==
  Replied("settle", 500) =>
    /\ Store = last.before
    /\ sess[last.t] = EmptySession
    /\ dbLock # last.t

\* C6 witness: the failure came after an entry had been processed, with its
\* Payment and SalesTransaction rows and its credit pending
C6_Witness ==
  /\ Replied("settle", 500)
  /\ Len(last.req.items) >= 1
  /\ last.req.token = ""
  /\ last.req.items[1].id \in DOMAIN ItemOwner
  /\ ItemOwner[last.req.items[1].id] \in Users

\* C7 (as claimed): no user's account_balance is ever negative.
C7_BalanceNonNegative == \A u \in Users : balance[u] >= 0

\* C8: a payout whose amount exceeds the balance it reads answers 400 with
\* the insufficient-balance error, calls the processor not at all and leaves
\* the store as it was; no payout goes on to the processor with an amount
\* above the balance it read.
C8_InsufficientRejected ==
  /\ (last.req.kind = "payout" /\ last.reply.error = "Insufficient balance") =>
       /\ last.reply.status = 400
       /\ last.req.amount > last.before.balance[last.req.user]
       /\ processor = last.asked
       /\ Store = last.before
  /\ \A t \in Threads :
       /\ pc[t] = "p_call" => req[t].amount <= sess[t].obj[req[t].user]
       /\ pc[t] = "p_commit" => sess[t].obj[req[t].user] >= 0

\* C8 witness: balance 0, payout of 1.50 refused
C8_Witness ==
  /\ last.req.kind = "payout"
  /\ last.reply.error = "Insufficient balance"
  /\ last.before.balance[last.req.user] = 0
  /\ last.req.amount > 0

\* C9 (as claimed): with requests run one at a time, a payout of amount a
\* that answers success has lowered the balance by exactly a and asked the
\* processor to move exactly a.
C9_ExactDebit ==
  Replied("payout", 200) =>
    /\ balance[last.req.user] = last.before.balance[last.req.user] - last.req.amount
    /\ processor # <<>>
    /\ processor[Len(processor)].amount * 1000 = last.req.amount

\* C10: a payout or transfer whose processor call raises answers 500 and
\* leaves every balance, and the whole store, as it was.
C10_ExternalFailureSafe ==
  last.reply.error = "StripeError" =>
    /\ last.req.kind \in {"payout", "transfer"}
    /\ last.reply.status = 500
    /\ Store = last.before
    /\ processor = last.asked

\* C10 witness: the call of a payout within the balance raised
C10_Witness ==
  /\ last.reply.error = "StripeError"
  /\ last.req.kind = "payout"
  /\ last.req.amount > 0
  /\ last.req.amount <= balance[last.req.user]

\* C11 (as claimed): a transfer by a user whose balance is not positive
\* answers 400 without a processor call or a balance change; a transfer that
\* answers success for a user with balance B > 0 asked the processor to move
\* exactly B and left the balance at 0.
C11_TransferMovesAll ==
  /\ (last.req.kind = "transfer" /\ last.reply.error = "Insufficient balance") =>
       /\ last.reply.status = 400
       /\ last.before.balance[last.req.user] <= 0
       /\ processor = last.asked
       /\ Store = last.before
  /\ Replied("transfer", 200) =>
       /\ last.before.balance[last.req.user] > 0
       /\ balance[last.req.user] = 0
       /\ processor # <<>>
       /\ processor[Len(processor)].op = "transfer"
       /\ processor[Len(processor)].amount * 10 = last.before.balance[last.req.user]

\* C12 (as claimed): for every computed split, your_share + seller_share
\* equals the amount, both shares being computed from the amount on their own.
C12_SplitSumsToCharge ==
  split # NoSplit => FAdd(split.your_share, split.seller_share) = split.amount

\* the rows of a table that reference order o, in insertion order
RowsOf(rows, o) == LET OfOrder(row) == row.order_id = o IN SelectSeq(rows, OfOrder)

\* C13: in every committed state, every Payment and SalesTransaction row
\* references a committed order, Payment rows have status success, and the
\* rows pair up one SalesTransaction per Payment for the same order and item;
\* the order a settlement has just committed has exactly one Payment row and
\* one SalesTransaction row per entry of its batch, in batch order, repeated
\* item ids included.
C13_RowsPerOrder ==
  /\ \A o \in 1..Len(orders) : orders[o].id = o /\ RowsOf(payments, o) # <<>>
  /\ Len(payments) = Len(sales)
  /\ \A i \in 1..Len(payments) :
       /\ payments[i].order_id \in 1..Len(orders)
       /\ payments[i].status = "success"
       /\ sales[i].order_id = payments[i].order_id
       /\ sales[i].item_id = payments[i].marketplace_item_id
  /\ Replied("settle", 200) =>
       LET pays == RowsOf(payments, Len(orders))
           sts == RowsOf(sales, Len(orders))
           items == last.req.items
       IN  /\ Len(orders) = Len(last.before.orders) + 1
           /\ Len(pays) = Len(items)
           /\ Len(sts) = Len(items)
           /\ \A k \in 1..Len(items) :
                /\ pays[k].marketplace_item_id = items[k].id
                /\ pays[k].amount = items[k].amount
                /\ sts[k].item_id = items[k].id

\* C13 witness: a committed batch that lists the same item twice
C13_Witness ==
  /\ Replied("settle", 200)
  /\ Len(last.req.items) = 2
  /\ last.req.items[1].id = last.req.items[2].id
  /\ Len(RowsOf(payments, Len(orders))) = 2

RECURSIVE SumOwned(_, _)
\* sum of seller_share over the batch entries whose item belongs to user u
SumOwned(items, u) ==
  IF items = <<>> THEN 0
  ELSE (IF ItemOwner[items[1].id] = u THEN SellerShare(items[1].amount) ELSE 0)
       + SumOwned(Tail(items), u)

\* C14: when a settlement has committed, every user's balance has grown by
\* exactly the seller_share of the batch entries whose item that user owns (an
\* item listed twice counting twice), every other balance, the buyer's
\* included, is as before, and each SalesTransaction row of the order carries
\* the id of its item's owner.
C14_CreditToOwner ==
  Replied("settle", 200) =>
    /\ \A u \in Users :
         balance[u] = last.before.balance[u] + SumOwned(last.req.items, u)
    /\ \A i \in 1..Len(sales) :
         sales[i].order_id = Len(orders) => sales[i].user_id = ItemOwner[sales[i].item_id]

\* C14 witness: the buyer owns none of the two entries, both of one seller
C14_Witness ==
  /\ Replied("settle", 200)
  /\ Len(last.req.items) = 2
  /\ \A k \in 1..2 : ItemOwner[last.req.items[k].id] \in Users \ {last.req.user}
  /\ balance[last.req.user] = last.before.balance[last.req.user]
  /\ \E u \in Users : balance[u] = last.before.balance[u] + 1800

Credited(items) ==
  {u \in Users : \E k \in 1..Len(items) : ItemOwner[items[k].id] = u}

\* C16 (as claimed): when a settlement has committed, exactly one "item sold"
\* notification of its order has been triggered for each seller its batch
\* credited, and none for anybody else.
C16_OnePerSeller ==
  Replied("settle", 200) =>
    \A u \in Users :
      Cardinality({i \in 1..Len(notified) :
                     notified[i].order = Len(orders) /\ notified[i].user = u})
        = IF u \in Credited(last.req.items) THEN 1 ELSE 0

\* every entry the loop reached has an id and a non-zero amount and names an
\* existing item
ValidBatch(items) ==
  /\ items # <<>>
  /\ \A k \in 1..Len(items) :
       /\ ~Falsy(items[k], "id")
       /\ ~Falsy(items[k], "amount")
       /\ items[k].id \in DOMAIN ItemOwner

\* C17 (as claimed): with requests run one at a time and no storage failure,
\* a settlement that carries a token and whose entries are all valid answers
\* 200 with its order committed, whatever happens in the notification step.
C17_NotifyFailureHarmless ==
  (/\ last.req.kind = "settle"
   /\ last.req.token # ""
   /\ ValidBatch(last.req.items)) =>
    /\ last.reply.status = 200
    /\ Len(orders) = Len(last.before.orders) + 1

\* C18 (as claimed): a settlement that is refused with a validation error
\* (fields missing, items empty, an entry without id or amount) is refused
\* before anything is inserted: at that moment its session holds no Order,
\* Payment or SalesTransaction row and no credited User, and it does not hold
\* the write lock.
C18_ValidationFailsFast ==
  [][(/\ last'.req.kind = "settle"
      /\ last'.reply.error \in {"Missing required fields",
                                "Items must be a non-empty list",
                                "Each item must have an 'id' and 'amount'"})
       => (/\ last'.reply.status = 400
           /\ sess[last'.t] = EmptySession
           /\ dbLock # last'.t)]_vars

\* C19 (as claimed): a settlement that commits has only positive amounts in
\* its batch and lowers no user's balance.
C19_NonPositiveRejected ==
  Replied("settle", 200) =>
    /\ \A k \in 1..Len(last.req.items) : last.req.items[k].amount > 0
    /\ \A u \in Users : balance[u] >= last.before.balance[u]

\* C20 (as claimed): a payout or a transfer, with its account id given, by an
\* authenticated user id that has no User row answers 404, without a
\* processor call and without a change of the store.
C20_MissingUserNotFound ==
  (/\ last.req.kind \in {"payout", "transfer"}
   /\ last.req.user \notin Users
   /\ "account_id" \in last.req.keys) =>
    /\ last.reply.status = 404
    /\ processor = last.asked
    /\ Store = last.before

\* request r, as far as its handler has read it, is request q
SameRequest(r, q) ==
  /\ r.kind = q.kind /\ r.user = q.user /\ r.keys = q.keys /\ r.empty = q.empty
  /\ r.token = q.token /\ r.total = q.total
  /\ Len(r.items) <= Len(q.items)
  /\ \A k \in 1..Len(r.items) : r.items[k] = q.items[k]

\* C21: with requests run one at a time, a settlement request that was
\* committed and is submitted again unchanged is committed again: no answer
\* other than 200 is given to a request that reads like the committed one,
\* and once it is committed the store holds two orders with distinct ids
\* and twice the Payment and SalesTransaction rows, and every seller of the
\* batch has been credited twice.
C21_NotIdempotent ==
  (/\ hist.nreq = 2
   /\ last.req.kind = "settle"
   /\ Len(last.before.orders) = 1
   /\ hist.settled # <<>>) =>
    LET first == hist.settled[1]
    IN  /\ last.reply.status # 200 => ~SameRequest(last.req, first)
        /\ (last.reply.status = 200 /\ last.req = first) =>
             /\ hist.settled = <<first, first>>
             /\ Len(orders) = 2
             /\ orders[1].id # orders[2].id
             /\ Len(payments) = 2 * Len(first.items)
             /\ Len(sales) = 2 * Len(first.items)
             /\ \A u \in Users :
                  balance[u] = InitBalance[u] + 2 * SumOwned(first.items, u)

\* C21 witness: the same request committed twice, a seller credited twice
C21_Witness ==
  /\ hist.nreq = 2
  /\ Replied("settle", 200)
  /\ Len(hist.settled) = 2
  /\ hist.settled[1] = hist.settled[2]
  /\ \E u \in Users :
       /\ SumOwned(last.req.items, u) > 0
       /\ balance[u] = InitBalance[u] + 2 * SumOwned(last.req.items, u)

\* entry e names an existing item whose userId has no User row
MissingSeller(e) ==
  /\ ~Falsy(e, "id") /\ ~Falsy(e, "amount")
  /\ e.id \in DOMAIN ItemOwner
  /\ ItemOwner[e.id] \notin Users

\* C22: with requests run one at a time, an entry whose item exists and
\* whose seller has no User row does not make the settlement fail; when the
\* settlement is committed, the order holds the Payment and SalesTransaction
\* rows of every entry, that entry's included, no balance is credited for
\* that entry, no notification is triggered for it, and the sellers of the
\* other entries are credited their shares.
C22_MissingSellerSkipped ==
  LET items == last.req.items
  IN  /\ (/\ last.req.kind = "settle"
          /\ items # <<>>
          /\ MissingSeller(items[Len(items)])) => last.reply.status = 200
      /\ (/\ Replied("settle", 200)
          /\ \E k \in 1..Len(items) : MissingSeller(items[k])) =>
            LET pays == RowsOf(payments, Len(orders))
                sts == RowsOf(sales, Len(orders))
            IN  /\ Len(orders) = Len(last.before.orders) + 1
                /\ Len(pays) = Len(items)
                /\ Len(sts) = Len(items)
                /\ \A k \in 1..Len(items) :
                     /\ pays[k].marketplace_item_id = items[k].id
                     /\ pays[k].amount = items[k].amount
                     /\ sts[k].item_id = items[k].id
                     /\ sts[k].user_id = ItemOwner[items[k].id]
                     /\ sts[k].seller_share = SellerShare(items[k].amount)
                /\ \A u \in Users :
                     balance[u] = last.before.balance[u] + SumOwned(items, u)
                /\ \A i \in 1..Len(notified) : notified[i].user \in Users

\* C22 witness: a committed batch of an entry without seller row and an entry
\* of an existing seller, who is credited
C22_Witness ==
  /\ Replied("settle", 200)
  /\ Len(last.req.items) = 2
  /\ \E k \in 1..2 : MissingSeller(last.req.items[k])
  /\ \E u \in Users :
       /\ SumOwned(last.req.items, u) > 0
       /\ balance[u] = last.before.balance[u] + SumOwned(last.req.items, u)
  /\ Len(RowsOf(sales, Len(orders))) = 2

\* C23 (as claimed): after one committed settlement that credits user U and
\* one committed transfer by U, the transfer answering last, what the
\* processor was asked to move plus U's balance is U's initial balance plus
\* the credit.
C23_TransferKeepsCredit ==
  (/\ Replied("transfer", 200)
   /\ hist.nreq = 2
   /\ Len(orders) = 1
   /\ Len(processor) = 1) =>
    SumMoved(processor, last.req.user, "transfer") + balance[last.req.user]
      = InitBalance[last.req.user] + SumShares(sales, last.req.user)

\* request r, as far as its handler has read it, is request q but for the
\* fcm_token field
SameButToken(r, q) ==
  /\ r.kind = q.kind /\ r.user = q.user /\ r.empty = q.empty /\ r.total = q.total
  /\ r.keys \ {"fcm_token"} = q.keys \ {"fcm_token"}
  /\ Len(r.items) <= Len(q.items)
  /\ \A k \in 1..Len(r.items) : r.items[k] = q.items[k]

\* C24 (as claimed): with requests run one at a time, a settlement request
\* that differs from a committed one in nothing but its fcm_token (another
\* value, empty or absent) gets the same answer, 200, and commits the same
\* rows and the same credits.
C24_TokenIndependent ==
  (/\ hist.nreq = 2
   /\ last.req.kind = "settle"
   /\ Len(last.before.orders) = 1
   /\ hist.settled # <<>>) =>
    LET first == hist.settled[1]
    IN  /\ last.reply.status # 200 => ~SameButToken(last.req, first)
        /\ (/\ last.reply.status = 200
            /\ last.req.items = first.items
            /\ SameButToken(last.req, first)) =>
             /\ Len(orders) = 2
             /\ Len(RowsOf(payments, 2)) = Len(RowsOf(payments, 1))
             /\ Len(RowsOf(sales, 2)) = Len(RowsOf(sales, 1))
             /\ \A u \in Users :
                  balance[u] = InitBalance[u] + 2 * SumOwned(first.items, u)

\* C25 (as claimed): with requests run one at a time, a payout or a transfer,
\* whatever it answers, leaves the acting user's balance no higher than it
\* was, leaves every other balance as it was and adds no Order, Payment or
\* SalesTransaction row.
C25_WithdrawalNeverAdds ==
  last.req.kind \in {"payout", "transfer"} =>
    /\ \A u \in Users :
         IF u = last.req.user THEN balance[u] <= last.before.balance[u]
                              ELSE balance[u] = last.before.balance[u]
    /\ orders = last.before.orders
    /\ payments = last.before.payments
    /\ sales = last.before.sales

=============================================================================
